---- MODULE Spec2Model ----
(***************************************************************************)
(* Dataset preparation of the YOLO vehicle annotator                       *)
(* (custom_model_trainer.py, class DatasetPreparer): file collection,      *)
(* train/val/test split, on-disk layout, statistics.                       *)
(*                                                                         *)
(* Ratios are floats in the source.  Here a ratio is the integer numerator *)
(* of a fraction over RatioDen, and int(total * ratio) is computed         *)
(* exactly; IEEE rounding of the product is not modelled.                  *)
(*                                                                         *)
(* Training (custom_model_trainer.py, class ModelTrainer, and              *)
(* training_dialog.py, classes TrainingThread and ModelTrainingDialog):    *)
(* class list fallback, base model resolution, progress percentage, the    *)
(* dialog with its worker threads and queued signals.  A queued signal and *)
(* a click of the user are handled by the dialog's thread in either order. *)
(***************************************************************************)
EXTENDS Integers, Sequences, FiniteSets, TLC

VARIABLES
    splitIn,      \* _split_dataset: the `files` argument
    splitCfg,     \* _split_dataset: <<train_ratio, val_ratio, test_ratio>>
    splitOut,     \* _split_dataset: what the last call returned or raised
    tree,         \* the source tree: the physical files the search paths can reach
    dsDirs,       \* dataset root: images/{train,val,test}, labels/{...} exist
    dsImages,     \* dataset root: images/<split>/<name> -> physical file it was copied from
    dsLabels,     \* dataset root: labels/<split>/<stem>.txt -> its lines
    dsYaml,       \* dataset root: dataset.yaml has been written
    dsStats,      \* dataset root: contents of dataset_statistics.json
    lastCall,     \* the last prepare_yolo_dataset call: inputs, split, outcome
    calls,        \* number of prepare_yolo_dataset calls made so far
    statsDir,     \* _generate_dataset_statistics: a labels/<split> directory
    statsOut,     \* _generate_dataset_statistics: the entry computed for it
    findImage,    \* _find_label_file: the image_file argument
    findLabels,   \* _find_label_file: the label_files argument
    findOut,      \* _find_label_file: what the call returned
    clsEnv,       \* _load_vehicle_classes: the registry store and the classes.txt files
    clsOut,       \* _load_vehicle_classes: what the call returned, and the store after it
    ultralytics,  \* ULTRALYTICS_AVAILABLE: the training engine could be imported
    dlg,          \* ModelTrainingDialog: buttons, dataset_yaml, status, open question box,
                  \* training_thread
    workers,      \* TrainingThread objects: where run() / train_model stands, what it made
    queue,        \* signals emitted by the workers, queued for the dialog's thread
    hist,         \* per run: which slots ran for it, and how it was stopped
    resEnv,       \* _download_base_model: base_model, whether it exists, which loads succeed
    resOut,       \* _download_base_model: what the call returned, whether train() was reached
    prog,         \* on_train_epoch_end: epochs, epochs ended, the last two percentages emitted
    art,          \* _save_final_model: the checkpoints, <model_name>.pt, the outcome
    dev,          \* _prepare_training_args: config.device, the probe, the 'device' argument
    exp,          \* YoloExporter.export_annotations: the image, the label file, the outcome
    mgr,          \* VehicleClassManager: classes, next_id, the persisted configuration
    pred          \* PredictionResultDialog: predictions, accepted and rejected lists

vars == <<splitIn, splitCfg, splitOut, tree, dsDirs, dsImages, dsLabels,
          dsYaml, dsStats, lastCall, calls, statsDir, statsOut,
          findImage, findLabels, findOut, clsEnv, clsOut,
          ultralytics, dlg, workers, queue, hist, resEnv, resOut, prog,
          art, dev, exp, mgr, pred>>

splitVars == <<splitIn, splitCfg, splitOut>>
fsVars    == <<dsDirs, dsImages, dsLabels, dsYaml, dsStats>>
prepVars  == <<tree, dsDirs, dsImages, dsLabels, dsYaml, dsStats, lastCall, calls>>
statsVars == <<statsDir, statsOut>>
findVars  == <<findImage, findLabels, findOut>>
classVars == <<clsEnv, clsOut>>
trainVars == <<ultralytics, dlg, workers, queue, hist>>
resolveVars == <<resEnv, resOut>>
lateVars  == <<art, dev, exp, mgr, pred>>
orchVars  == <<classVars, trainVars, resolveVars, prog, lateVars>>
oldVars   == <<splitVars, prepVars, statsVars, findVars, classVars, trainVars,
               resolveVars, prog>>

----------------------------------------------------------------------------
(* Bounds of the model *)

MaxShuffle == 4      \* lists up to this length are shuffled into every order
MaxCalls   == 2      \* prepare_yolo_dataset calls into the same dataset root
MaxTree    == 3      \* files in the source tree
MaxLines   == 2      \* lines in a label file
MaxLabels  == 2      \* label files in a labels/<split> directory
MaxFound   == 3      \* label files in the list _find_label_file searches

(* Program constants *)

ToleranceInv == 100  \* abs(total_ratio - 1.0) > 0.01, as 1/100

\* a ratio r stands for the float r / RatioDen: thousandths
RatioDen == 10 * ToleranceInv

----------------------------------------------------------------------------
(* Generic helpers *)

Min(a, b) == IF a < b THEN a ELSE b

Abs(x) == IF x < 0 THEN -x ELSE x

Range(s) == {s[i] : i \in DOMAIN s}

Injective(s) == \A i, j \in DOMAIN s : s[i] = s[j] => i = j

\* every ordering of the finite set S (list(set(...)), random.shuffle)
RECURSIVE Orderings(_)
Orderings(S) ==
    IF S = {} THEN {<<>>}
    ELSE UNION {{Append(s, x) : s \in Orderings(S \ {x})} : x \in S}

\* list(S), in some order
RECURSIVE AsList(_)
AsList(S) ==
    IF S = {} THEN <<>>
    ELSE LET x == CHOOSE y \in S : TRUE IN Append(AsList(S \ {x}), x)

\* files[a:b] for 0 <= a, 0 <= b: both ends are clamped to len(files)
PySlice(s, a, b) == SubSeq(s, Min(a, Len(s)) + 1, Min(b, Len(s)))

----------------------------------------------------------------------------
(* DatasetPreparer._split_dataset *)

SplitNames == {"train", "val", "test"}

\* abs(total_ratio - 1.0) > 0.01
RatioOutOfTolerance(tr, vr, te) ==
    ToleranceInv * Abs((tr + vr + te) - RatioDen) > RatioDen

\* int(total_files * ratio), ratio >= 0
CountRounded(n, ratio) == (2 * n * ratio + RatioDen) \div (2 * RatioDen)

Count(n, ratio) == (n * ratio) \div RatioDen

\* files[train_count:train_count + val_count]
ValSliceOffByOne(s, tc, vc) == PySlice(s, IF tc > 0 THEN tc - 1 ELSE 0, tc + vc)

ValSlice(s, tc, vc) == PySlice(s, tc, tc + vc)

\* the body after random.shuffle: `shuffled` is the list in its shuffled order
SplitDataset(shuffled, tr, vr, te) ==
    IF RatioOutOfTolerance(tr, vr, te)
    THEN [raised |-> "ValueError", train |-> <<>>, val |-> <<>>, test |-> <<>>]
    ELSE LET total_files == Len(shuffled)
             train_count == Count(total_files, tr)
             val_count   == Count(total_files, vr)
         IN  [raised |-> "none",
              train  |-> PySlice(shuffled, 0, train_count),
              val    |-> ValSlice(shuffled, train_count, val_count),
              test   |-> PySlice(shuffled, train_count + val_count, total_files)]

\* random.shuffle(files): every order of a short list; of a long one, its rotations
Rotate(s, k) == [i \in 1..Len(s) |-> s[((i - 1 + k) % Len(s)) + 1]]

Shuffles(s) ==
    IF Len(s) <= MaxShuffle
    THEN {[i \in 1..Len(s) |-> s[p[i]]] : p \in Orderings(1..Len(s))}
    ELSE {Rotate(s, k) : k \in 0..MaxShuffle}

----------------------------------------------------------------------------
(* Inputs of the split specification *)

Iota(n) == [i \in 1..n |-> i]

LargeCounts == {10, 100, 200}

FileCounts == (0..MaxShuffle) \cup LargeCounts

\* 0.0, 0.1, 0.2, 0.3, 0.495, 0.5, 0.505, 0.7, 0.8, 1.0
RatioValues == {0, 100, 200, 300, 495, 500, 505, 700, 800, 1000}

RatioTriples == RatioValues \X RatioValues \X RatioValues

NoSplit == [raised |-> "not called", train |-> <<>>, val |-> <<>>, test |-> <<>>]

----------------------------------------------------------------------------
(* Paths.  A Path is a spelling: [dir, stem, ext].  Two Paths are equal    *)
(* when their spellings are equal (set(image_files) compares Paths, it     *)
(* resolves nothing).  A physical file is a Path whose dir is absolute.    *)

Cwd == "/abs/cwd"

\* DatasetPreparer(source_dir=...): ".", the working directory spelled out, elsewhere
SourceDirs == {".", "/abs/cwd", "/data"}

\* self.source_dir / "images"
SourceImages(sd) == IF sd = "." THEN "images" ELSE IF sd = "/abs/cwd" THEN "/abs/cwd/images" ELSE "/data/images"

\* search_paths of _collect_files, in order
SearchPaths(sd) == <<sd, SourceImages(sd), "images", "exports/yolo", "labels">>

\* the directory a spelling denotes
Resolve(d) ==
    CASE d = "."            -> Cwd
      [] d = "images"       -> "/abs/cwd/images"
      [] d = "exports/yolo" -> "/abs/cwd/exports/yolo"
      [] d = "labels"       -> "/abs/cwd/labels"
      [] OTHER              -> d

ImageExts == {"jpg", "jpeg", "png", "bmp", "tiff", "tif"}

Blank == -1    \* a line with no tokens
Junk  == -2    \* a line whose first token is no integer

ClassIds == {0, 1}

\* the files a source tree may hold
TreeFiles ==
    { [dir |-> "/abs/cwd",              stem |-> "a", ext |-> "jpg", lines |-> <<>>],
      [dir |-> "/abs/cwd/images",       stem |-> "a", ext |-> "jpg", lines |-> <<>>],
      [dir |-> "/abs/cwd/images",       stem |-> "b", ext |-> "png", lines |-> <<>>],
      [dir |-> "/data",                 stem |-> "c", ext |-> "jpg", lines |-> <<>>],
      [dir |-> "/abs/cwd/labels",       stem |-> "a", ext |-> "txt", lines |-> <<0, 1>>],
      [dir |-> "/abs/cwd/exports/yolo", stem |-> "a", ext |-> "txt", lines |-> <<1>>],
      [dir |-> "/abs/cwd/labels",       stem |-> "b", ext |-> "txt", lines |-> <<0, Blank>>],
      [dir |-> "/data",                 stem |-> "c", ext |-> "txt", lines |-> <<Junk>>] }

Trees == {t \in SUBSET TreeFiles : Cardinality(t) <= MaxTree}

\* search_path.exists(): the working directory exists; an empty directory
\* yields the same (empty) glob as a missing one
DirExists(t, d) == Resolve(d) = Cwd \/ \E f \in t : f.dir = Resolve(d)

\* search_path.glob("*.<ext>") for ext in exts: Paths spelled under search_path
Glob(t, d, exts) ==
    IF DirExists(t, d)
    THEN { [dir |-> d, stem |-> f.stem, ext |-> f.ext] :
             f \in {g \in t : g.dir = Resolve(d) /\ g.ext \in exts} }
    ELSE {}

\* list(set(image_files)): the set; its list order is arbitrary
CollectFiles(t, sd, exts) ==
    UNION { Glob(t, SearchPaths(sd)[i], exts) : i \in 1..Len(SearchPaths(sd)) }

\* the physical file a Path denotes
Physical(p) == [dir |-> Resolve(p.dir), stem |-> p.stem, ext |-> p.ext]

Content(t, p) ==
    (CHOOSE f \in t : f.dir = Resolve(p.dir) /\ f.stem = p.stem /\ f.ext = p.ext).lines

----------------------------------------------------------------------------
(* DatasetPreparer._find_label_file *)

None == [dir |-> "None", stem |-> "", ext |-> ""]

FindLast(image_file, label_files) ==
    LET hits == {i \in 1..Len(label_files) : label_files[i].stem = image_file.stem}
    IN  IF hits = {} THEN None
        ELSE label_files[CHOOSE i \in hits : \A j \in hits : j <= i]

FindLabelFile(image_file, label_files) ==
    LET hits == {i \in 1..Len(label_files) : label_files[i].stem = image_file.stem}
    IN  IF hits = {} THEN None
        ELSE label_files[CHOOSE i \in hits : \A j \in hits : i <= j]

----------------------------------------------------------------------------
(* DatasetPreparer._generate_dataset_statistics *)

EmptyDir == [x \in {} |-> <<>>]

\* a directory with file k (over)written
Put(dir, k, v) == [x \in (DOMAIN dir) \cup {k} |-> IF x = k THEN v ELSE dir[x]]

\* parts = line.strip().split(); if parts: class_id = int(parts[0])
HasTokens(line) == line # Blank

\* lines of one file counted for class c
ClassLines(lines, c) == Cardinality({i \in 1..Len(lines) : HasTokens(lines[i]) /\ lines[i] = c})

\* sum(f.values())
RECURSIVE SumValues(_, _)
SumValues(f, keys) ==
    IF keys = {} THEN 0
    ELSE LET k == CHOOSE x \in keys : TRUE IN f[k] + SumValues(f, keys \ {k})

\* total_annotations += len(lines)
CountLines(lines) == Len(lines)

TotalAnnotations(labels_dir) ==
    SumValues([k \in DOMAIN labels_dir |-> CountLines(labels_dir[k])], DOMAIN labels_dir)

\* class_counts[class_id] = class_counts.get(class_id, 0) + 1
ClassIncrementPerFile(lines, c) == IF ClassLines(lines, c) > 0 THEN 1 ELSE 0

ClassIncrement(lines, c) == ClassLines(lines, c)

ClassCounts(labels_dir) ==
    LET seen == {c \in ClassIds :
                   \E k \in DOMAIN labels_dir : \E i \in 1..Len(labels_dir[k]) : labels_dir[k][i] = c}
    IN  [c \in seen |->
           SumValues([k \in DOMAIN labels_dir |-> ClassIncrement(labels_dir[k], c)],
                     DOMAIN labels_dir)]

\* int(parts[0]) raises ValueError on a first token that is no integer
StatisticsRaise(labels_dir) ==
    \E k \in DOMAIN labels_dir : \E i \in 1..Len(labels_dir[k]) : labels_dir[k][i] = Junk

\* stats['splits'][split]
SplitStatistics(images_dir, labels_dir) ==
    [images             |-> Cardinality(DOMAIN images_dir),
     labels             |-> Cardinality(DOMAIN labels_dir),
     annotations        |-> TotalAnnotations(labels_dir),
     class_distribution |-> ClassCounts(labels_dir)]

NoStats == [images |-> 0, labels |-> 0, annotations |-> 0, class_distribution |-> EmptyDir]

----------------------------------------------------------------------------
(* DatasetPreparer.prepare_yolo_dataset *)

EmptyLayout == [images |-> [s \in SplitNames |-> EmptyDir],
                labels |-> [s \in SplitNames |-> EmptyDir]]

\* img_file.name
FileName(p) == <<p.stem, p.ext>>

\* the loop body over one split's file_list, from its i-th file on
RECURSIVE CopyFiles(_, _, _, _, _, _)
CopyFiles(t, layout, split_name, file_list, label_files, i) ==
    IF i > Len(file_list) THEN layout
    ELSE LET img_file   == file_list[i]
             withImage  == [layout EXCEPT !.images[split_name] =
                                Put(@, FileName(img_file), Physical(img_file))]
             label_file == FindLabelFile(img_file, label_files)
             withLabel  == IF label_file # None
                           THEN [withImage EXCEPT !.labels[split_name] =
                                     Put(@, img_file.stem, Content(t, label_file))]
                           ELSE withImage
         IN  CopyFiles(t, withLabel, split_name, file_list, label_files, i + 1)

\* for split_name, file_list in [("train", ...), ("val", ...), ("test", ...)]
CopySplits(t, layout, split, label_files) ==
    LET afterTrain == CopyFiles(t, layout, "train", split.train, label_files, 1)
        afterVal   == CopyFiles(t, afterTrain, "val", split.val, label_files, 1)
    IN  CopyFiles(t, afterVal, "test", split.test, label_files, 1)

NoStatsFile == [written |-> FALSE, splits |-> [s \in SplitNames |-> NoStats]]

NoCall == [raised |-> "not called", source_dir |-> ".", ratios |-> <<0, 0, 0>>,
           images |-> {}, labels |-> {}, lookup |-> EmptyDir,
           assigned |-> [s \in SplitNames |-> {}]]

\* the ratio triples a configuration is given in the layout specification:
\* the defaults (0.7, 0.2, 0.1); (0.5, 0.5, 0.0); (1.0, 0.0, 0.0); (0.3, 0.3, 0.3)
ConfigRatios == {<<700, 200, 100>>, <<500, 500, 0>>, <<1000, 0, 0>>, <<300, 300, 300>>}

ValidationErrors == {"ValueError: no images", "ValueError: ratios"}

\* one call of prepare_yolo_dataset, from _create_dataset_structure to the
\* statistics; `shuffled` is what random.shuffle left, `label_files` the
\* order list(set(label_files)) came out in
PrepareYoloDataset(source_dir, ratios, shuffled, label_files) ==
    LET image_files == CollectFiles(tree, source_dir, ImageExts)
        split  == SplitDataset(shuffled, ratios[1], ratios[2], ratios[3])
        layout == CopySplits(tree, [images |-> dsImages, labels |-> dsLabels],
                             split, label_files)
        call   == [raised |-> "none", source_dir |-> source_dir, ratios |-> ratios,
                   images |-> image_files, labels |-> Range(label_files),
                   lookup |-> [p \in image_files |-> FindLabelFile(p, label_files)],
                   assigned |-> [s \in SplitNames |-> {}]]
        done   == [call EXCEPT !.assigned = [s \in SplitNames |-> Range(split[s])]]
    IN  /\ calls < MaxCalls
        /\ calls' = calls + 1
        /\ Range(shuffled) = image_files
        /\ Range(label_files) = CollectFiles(tree, source_dir, {"txt"})
        /\ dsDirs' = TRUE
        /\ UNCHANGED tree
        /\ IF image_files = {}
           THEN /\ lastCall' = [call EXCEPT !.raised = "ValueError: no images",
                                            !.lookup = EmptyDir]
                /\ UNCHANGED <<dsImages, dsLabels, dsYaml, dsStats>>
           ELSE IF split.raised # "none"
           THEN /\ lastCall' = [call EXCEPT !.raised = "ValueError: ratios",
                                            !.lookup = EmptyDir]
                /\ UNCHANGED <<dsImages, dsLabels, dsYaml, dsStats>>
           ELSE /\ dsImages' = layout.images
                /\ dsLabels' = layout.labels
                /\ dsYaml' = TRUE
                /\ IF \E s \in SplitNames : StatisticsRaise(layout.labels[s])
                   THEN /\ lastCall' = [done EXCEPT !.raised = "ValueError: int()"]
                        /\ UNCHANGED dsStats
                   ELSE /\ lastCall' = done
                        /\ dsStats' = [written |-> TRUE,
                                       splits |-> [s \in SplitNames |->
                                           SplitStatistics(layout.images[s], layout.labels[s])]]

Prepare ==
    \E source_dir \in SourceDirs, ratios \in ConfigRatios :
        \E label_files \in Orderings(CollectFiles(tree, source_dir, {"txt"})) :
            \E shuffled \in Shuffles(AsList(CollectFiles(tree, source_dir, ImageExts))) :
                /\ PrepareYoloDataset(source_dir, ratios, shuffled, label_files)
                /\ UNCHANGED <<splitVars, statsVars, findVars, orchVars>>

----------------------------------------------------------------------------
(* _load_vehicle_classes: the class registry (VehicleClassManager over     *)
(* vehicle_classes.json), the classes.txt files, the default list          *)

MaxClassLines == 2   \* lines in a classes.txt file

\* The four names are Chinese in the source (motorcycle, car, truck, bus);
\* they are spelled in ASCII here.
DefaultNames == <<"jiche", "qiche", "kache", "gongche">>

\* _load_default_classes: the four classes, ids 0..3, all enabled
RegistryDefaults == [i \in 1..4 |-> [name |-> DefaultNames[i], enabled |-> TRUE]]

\* vehicle_classes.json: absent, unparsable, or a list of classes in id order
MissingStore == [state |-> "missing", classes |-> <<>>]
CorruptStore == [state |-> "corrupt", classes |-> <<>>]
ValidStore(classes) == [state |-> "valid", classes |-> classes]

RECURSIVE SelectNames(_, _)
SelectNames(classes, enabled_only) ==
    IF classes = <<>> THEN <<>>
    ELSE IF enabled_only /\ ~Head(classes).enabled
         THEN SelectNames(Tail(classes), enabled_only)
         ELSE <<Head(classes).name>> \o SelectNames(Tail(classes), enabled_only)

\* get_all_classes(enabled_only) followed by [cls.name for cls in classes]
GetAllClassNames(classes, enabled_only) == SelectNames(classes, enabled_only)

\* VehicleClassManager(): load_classes reads the store; a missing or
\* unparsable store is replaced by the defaults, which save_classes writes
\* back, re-raising when the write fails.
VehicleClassManager(store, writable) ==
    IF store.state = "valid"
    THEN [raised |-> FALSE, classes |-> store.classes, store |-> store]
    ELSE IF writable
         THEN [raised |-> FALSE, classes |-> RegistryDefaults,
               store |-> ValidStore(RegistryDefaults)]
         ELSE [raised |-> TRUE, classes |-> <<>>, store |-> store]

\* the try block: import, construct, list the enabled classes
RegistryNames(env) ==
    IF ~env.importable
    THEN [raised |-> TRUE, names |-> <<>>, store |-> env.store]
    ELSE LET m == VehicleClassManager(env.store, env.writable)
         IN  [raised |-> m.raised,
              names  |-> GetAllClassNames(m.classes, TRUE),
              store  |-> m.store]

\* a line of a classes.txt file: a name (or nothing) between white space
BlankLine == [pad |-> TRUE, text |-> ""]

Strip(line) == line.text

RECURSIVE StrippedLines(_)
StrippedLines(lines) ==
    IF lines = <<>> THEN <<>>
    ELSE IF Strip(Head(lines)) # ""
         THEN <<Strip(Head(lines))>> \o StrippedLines(Tail(lines))
         ELSE StrippedLines(Tail(lines))

Absent == [exists |-> FALSE, lines |-> <<>>]

\* classes_files: classes.txt, exports/yolo/classes.txt, <source_dir>/classes.txt
ClassesFiles == 1..3

FirstExistingLast(files) == CHOOSE i \in ClassesFiles :
    files[i].exists /\ \A j \in ClassesFiles : files[j].exists => j <= i

FirstExisting(files) == CHOOSE i \in ClassesFiles :
    files[i].exists /\ \A j \in ClassesFiles : files[j].exists => i <= j

LoadVehicleClasses(env) ==
    LET registry == RegistryNames(env)
    IN  IF ~registry.raised
        THEN [raised |-> FALSE, tier |-> "registry", names |-> registry.names,
              store |-> registry.store]
        ELSE IF \E i \in ClassesFiles : env.files[i].exists
        THEN [raised |-> FALSE, tier |-> "file",
              names |-> StrippedLines(env.files[FirstExisting(env.files)].lines),
              store |-> registry.store]
        ELSE [raised |-> FALSE, tier |-> "default", names |-> DefaultNames,
              store |-> registry.store]

NoClasses == [called |-> FALSE, raised |-> FALSE, tier |-> "none", names |-> <<>>,
              store |-> MissingStore]

InitClasses == /\ clsEnv = [importable |-> TRUE, store |-> MissingStore,
                            writable |-> TRUE, files |-> [i \in ClassesFiles |-> Absent]]
               /\ clsOut = NoClasses

----------------------------------------------------------------------------
(* ModelTrainer.train_model: base model resolution, progress percentage    *)

FallbackModels == <<"yolov8n.pt", "yolov8s.pt", "yolov8m.pt">>

\* _download_base_model.  exists: os.path.exists(base_model); loads[i]: the
\* i-th YOLO(...) call of this invocation succeeds (the first is made on the
\* configured identifier, the next ones on the fallbacks in order).
FirstLoadingLast(loads) == CHOOSE i \in 2..4 : loads[i] /\ \A j \in 2..4 : loads[j] => j <= i

FirstLoading(loads) == CHOOSE i \in 2..4 : loads[i] /\ \A j \in 2..4 : loads[j] => i <= j

DownloadBaseModel(base_model, exists, loads) ==
    IF exists THEN [raised |-> FALSE, model |-> base_model, tried |-> 0]
    ELSE IF loads[1] THEN [raised |-> FALSE, model |-> base_model, tried |-> 1]
    ELSE IF \E i \in 2..4 : loads[i]
    THEN [raised |-> FALSE, model |-> FallbackModels[FirstLoading(loads) - 1],
          tried |-> FirstLoading(loads)]
    ELSE [raised |-> TRUE, model |-> "none", tried |-> 4]

\* base_model_combo offers yolov8n/s/m/l/x.pt; config.base_model may also be
\* set to a path
BaseModels == {"yolov8s.pt", "yolov8x.pt", "models/custom.pt"}

LoadOutcomes == [1..4 -> BOOLEAN]

\* int((trainer.epoch + 1) / trainer.epochs * 100) in IEEE double arithmetic:
\* the quotient is rounded, its product with 100 is rounded, int() truncates.
\* The result is the exact floor except where the exact value is one of the
\* integers below, for which the double product falls just under the integer
\* (0.29 * 100 = 28.999999999999996, likewise 0.57 and 0.58).
ShortPercents == {29, 57, 58}

ProgressRounded(epoch, epochs) == (2 * (epoch + 1) * 100 + epochs) \div (2 * epochs)

ProgressCoarse(epoch, epochs) == ((epoch + 1) \div epochs) * 100

Progress(epoch, epochs) ==
    LET exact == ((epoch + 1) * 100) \div epochs
    IN  IF (epoch + 1) * 100 = exact * epochs /\ exact \in ShortPercents
        THEN exact - 1
        ELSE exact

----------------------------------------------------------------------------
(* TrainingThread and ModelTrainingDialog: one dialog, the worker threads  *)
(* it starts, and the queued signals between them                          *)

MaxRuns        == 2   \* TrainingThread objects one dialog creates
MaxTrainEpochs == 2   \* config.epochs of a run

TrainingThreads == 1..MaxRuns

NoWorker == [pc |-> "unborn", epochs |-> 0, epoch |-> 0, run_dir |-> FALSE,
             config_saved |-> FALSE, snapshot |-> 0, report |-> 0,
             train_invoked |-> FALSE,
             raised_in |-> "none", emitted |-> "none"]

NoHist == [reported |-> "none", terminals |-> 0, alive_at_terminal |-> FALSE,
           epoch_after_terminal |-> FALSE, cancelled |-> FALSE,
           cancelled_at |-> "none", cancelled_after |-> "none"]

\* the dialog after __init__, with the value of epochs_spin
NewDialog(epochs) ==
    [start_btn |-> FALSE, stop_btn |-> FALSE, prepare_btn |-> TRUE,
     dataset_yaml |-> FALSE, epochs |-> epochs, status |-> "ready", bar |-> 0,
     modal |-> "none", training_thread |-> 0]

\* the variables of the other specifications
restVars == <<splitVars, prepVars, statsVars, findVars, classVars, resolveVars, prog,
              lateVars>>

\* QThread.isRunning(): started and run() has not returned
IsRunning(w) == w.pc \notin {"unborn", "exited", "terminated"}

Created == Cardinality({r \in TrainingThreads : workers[r].pc # "unborn"})

Signal(r, name, arg) == [run |-> r, signal |-> name, arg |-> arg]

\* the statements of train_model before self.model.train is entered
PreparingSteps == {"check_engine", "create_run_directory", "save_training_config",
                   "download_base_model", "load_model", "train"}

RaiseAsCompleted(w) == [w EXCEPT !.pc = "emit_completed", !.raised_in = w.pc]

\* an exception leaves train_model and reaches the except clause of run();
\* raised_in keeps the statement that raised
Raise(w) == [w EXCEPT !.pc = "except", !.raised_in = w.pc]

WorkerStep(r, w, signals) ==
    /\ workers' = [workers EXCEPT ![r] = w]
    /\ queue' = queue \o signals
    /\ UNCHANGED <<ultralytics, dlg, hist, restVars>>

\* train_model, line 365
CheckEngine(r) ==
    /\ workers[r].pc = "check_engine"
    /\ WorkerStep(r, IF ultralytics
                     THEN [workers[r] EXCEPT !.pc = "create_run_directory"]
                     ELSE Raise(workers[r]), <<>>)

\* train_model, line 371
CreateRunDirectory(r) ==
    /\ workers[r].pc = "create_run_directory"
    /\ WorkerStep(r, [workers[r] EXCEPT !.pc = "save_training_config",
                                        !.run_dir = TRUE], <<>>)

\* train_model, line 374
SaveTrainingConfig(r) ==
    /\ workers[r].pc = "save_training_config"
    /\ WorkerStep(r, [workers[r] EXCEPT !.pc = "download_base_model",
                                        !.config_saved = TRUE,
                                        !.snapshot = dlg.epochs], <<>>)

\* train_model, line 377
ResolveBaseModel(r) ==
    /\ workers[r].pc = "download_base_model"
    /\ \E base_model \in BaseModels, exists \in BOOLEAN, loads \in LoadOutcomes :
           LET res == DownloadBaseModel(base_model, exists, loads)
           IN  WorkerStep(r, IF res.raised
                             THEN Raise(workers[r])
                             ELSE [workers[r] EXCEPT !.pc = "load_model"], <<>>)

\* train_model, lines 378-385: YOLO(model_path), the arguments read from the
\* dialog's config object, the callbacks
LoadModel(r) ==
    /\ workers[r].pc = "load_model"
    /\ \E loaded \in BOOLEAN :
           WorkerStep(r, IF loaded
                         THEN [workers[r] EXCEPT !.pc = "train", !.epochs = dlg.epochs]
                         ELSE Raise(workers[r]), <<>>)

\* train_model, line 392: self.model.train(**train_args) is entered
Train(r) ==
    /\ workers[r].pc = "train"
    /\ WorkerStep(r, [workers[r] EXCEPT !.pc = "epoch_end", !.train_invoked = TRUE,
                                        !.epoch = 0], <<>>)

\* on_train_epoch_end: progress_callback and log_callback emit their signals
EpochEnd(r) ==
    LET w == workers[r]
    IN  /\ w.pc = "epoch_end"
        /\ WorkerStep(r, [w EXCEPT !.epoch = w.epoch + 1,
                                   !.pc = IF w.epoch + 1 = w.epochs
                                          THEN "save_final_model" ELSE "epoch_end"],
                      <<Signal(r, "progress_updated", Progress(w.epoch, w.epochs)),
                        Signal(r, "log_updated", w.epoch + 1)>>)

\* the engine raises inside train()
TrainRaise(r) ==
    /\ workers[r].pc = "epoch_end"
    /\ WorkerStep(r, Raise(workers[r]), <<>>)

\* train_model, lines 395-401: _save_final_model, _generate_training_report
SaveFinalModel(r) ==
    /\ workers[r].pc = "save_final_model"
    /\ \E saved \in BOOLEAN :
           WorkerStep(r, IF saved
                         THEN [workers[r] EXCEPT !.pc = "emit_completed",
                                                 !.report = dlg.epochs]
                         ELSE Raise(workers[r]), <<>>)

\* run(), line 60
EmitCompleted(r) ==
    /\ workers[r].pc = "emit_completed"
    /\ WorkerStep(r, [workers[r] EXCEPT !.pc = "return", !.emitted = "training_completed"],
                  <<Signal(r, "training_completed", 0)>>)

\* run(), lines 62-63
EmitFailed(r) ==
    /\ workers[r].pc = "except"
    /\ WorkerStep(r, [workers[r] EXCEPT !.pc = "return", !.emitted = "training_failed"],
                  <<Signal(r, "training_failed", 0)>>)

\* run() returns: the thread finishes
Return(r) ==
    /\ workers[r].pc = "return"
    /\ WorkerStep(r, [workers[r] EXCEPT !.pc = "exited"], <<>>)

\* prepare_dataset on the dialog's thread: dataset_yaml is set and the start
\* button enabled when preparation succeeds
PrepareDataset ==
    /\ dlg.prepare_btn
    /\ dlg.modal = "none"
    /\ \E ok \in BOOLEAN :
           dlg' = IF ok THEN [dlg EXCEPT !.dataset_yaml = TRUE, !.start_btn = TRUE,
                                         !.status = "prepared"]
                  ELSE [dlg EXCEPT !.status = "preparing"]
    /\ UNCHANGED <<ultralytics, workers, queue, hist, restVars>>

\* update_config, connected to the valueChanged signal of epochs_spin: the
\* dialog's config object, which the workers share, takes the new value
UpdateConfig ==
    /\ dlg.modal = "none"
    /\ \E epochs \in (1..MaxTrainEpochs) \ {dlg.epochs} :
           dlg' = [dlg EXCEPT !.epochs = epochs]
    /\ UNCHANGED <<ultralytics, workers, queue, hist, restVars>>

\* start_training up to the confirmation box
StartTraining ==
    /\ dlg.start_btn
    /\ dlg.modal = "none"
    /\ Created < MaxRuns
    /\ dlg' = IF dlg.dataset_yaml THEN [dlg EXCEPT !.modal = "start?"] ELSE dlg
    /\ UNCHANGED <<ultralytics, workers, queue, hist, restVars>>

\* start_training from the answer on: a new TrainingThread is started
StartAnswer ==
    /\ dlg.modal = "start?"
    /\ \E yes \in BOOLEAN :
           IF yes
           THEN LET r == Created + 1
                IN  /\ dlg' = [dlg EXCEPT !.modal = "none", !.start_btn = FALSE,
                                          !.stop_btn = TRUE, !.prepare_btn = FALSE,
                                          !.bar = 0, !.training_thread = r,
                                          !.status = "training"]
                    /\ workers' = [workers EXCEPT ![r] =
                                      [NoWorker EXCEPT !.pc = "check_engine"]]
           ELSE /\ dlg' = [dlg EXCEPT !.modal = "none"]
                /\ UNCHANGED workers
    /\ UNCHANGED <<ultralytics, queue, hist, restVars>>

\* stop_training up to the confirmation box
StopTraining ==
    /\ dlg.stop_btn
    /\ dlg.modal = "none"
    /\ dlg' = IF dlg.training_thread # 0 /\ IsRunning(workers[dlg.training_thread])
              THEN [dlg EXCEPT !.modal = "stop?"]
              ELSE dlg
    /\ UNCHANGED <<ultralytics, workers, queue, hist, restVars>>

\* stop_training from the answer on: terminate(), wait(), buttons, status
StopAnswer ==
    /\ dlg.modal = "stop?"
    /\ \E yes \in BOOLEAN :
           IF yes
           THEN LET r == dlg.training_thread
                IN  /\ workers' = [workers EXCEPT ![r].pc =
                                      IF IsRunning(workers[r]) THEN "terminated" ELSE @]
                    /\ dlg' = [dlg EXCEPT !.modal = "none", !.start_btn = TRUE,
                                          !.stop_btn = FALSE, !.prepare_btn = TRUE,
                                          !.status = "stopped"]
                    /\ hist' = [hist EXCEPT ![r].cancelled = TRUE,
                                            ![r].cancelled_at = workers[r].pc,
                                            ![r].cancelled_after = hist[r].reported]
           ELSE /\ dlg' = [dlg EXCEPT !.modal = "none"]
                /\ UNCHANGED <<workers, hist>>
    /\ UNCHANGED <<ultralytics, queue, restVars>>

\* the slot connected to the signal at the head of the queue runs on the
\* dialog's thread (also inside the event loop of an open question box):
\* update_progress, update_log, on_training_completed, on_training_failed
Deliver ==
    /\ queue # <<>>
    /\ LET s == Head(queue)
           r == s.run
           terminal == s.signal \in {"training_completed", "training_failed"}
       IN  /\ dlg' = CASE s.signal = "progress_updated" ->
                              [dlg EXCEPT !.bar = s.arg, !.status = "progress"]
                       [] s.signal = "log_updated" -> dlg
                       [] s.signal = "training_completed" ->
                              [dlg EXCEPT !.start_btn = TRUE, !.stop_btn = FALSE,
                                          !.prepare_btn = TRUE, !.bar = 100,
                                          !.status = "completed"]
                       [] s.signal = "training_failed" ->
                              [dlg EXCEPT !.start_btn = TRUE, !.stop_btn = FALSE,
                                          !.prepare_btn = TRUE, !.status = "failed"]
           /\ hist' = IF terminal
                      THEN [hist EXCEPT ![r].reported = s.signal,
                                        ![r].terminals = @ + 1,
                                        ![r].alive_at_terminal = IsRunning(workers[r])]
                      ELSE [hist EXCEPT ![r].epoch_after_terminal =
                                            @ \/ hist[r].terminals > 0]
    /\ queue' = Tail(queue)
    /\ UNCHANGED <<ultralytics, workers, restVars>>

InitTrain == /\ ultralytics = TRUE
             /\ dlg = NewDialog(1)
             /\ workers = [r \in TrainingThreads |-> NoWorker]
             /\ queue = <<>>
             /\ hist = [r \in TrainingThreads |-> NoHist]

NoResolve == [called |-> FALSE, raised |-> FALSE, model |-> "none", tried |-> 0,
              train_invoked |-> FALSE]

InitResolve == /\ resEnv = [base_model |-> "yolov8s.pt", exists |-> FALSE,
                            loads |-> [i \in 1..4 |-> TRUE], opens |-> TRUE]
               /\ resOut = NoResolve

\* no percentage emitted yet
NoProgress(epochs) == [epochs |-> epochs, epoch |-> 0, last |-> -1, prev |-> -1, log |-> 0]

InitProgress == prog = NoProgress(1)

----------------------------------------------------------------------------
(* _save_final_model: best.pt, last.pt and <model_name>.pt                 *)

NoFile == "absent"

\* source_weights: best.pt when it exists, else last.pt; NoFile when neither does
SourceWeightsLastFirst(best, last) == IF last # NoFile THEN last ELSE best

SourceWeights(best, last) == IF best # NoFile THEN best ELSE last

\* _save_final_model: raises FileNotFoundError or copies over <model_name>.pt
FinalModel(best, last, final) ==
    LET source_weights == SourceWeights(best, last)
    IN  IF source_weights = NoFile
        THEN [raised |-> TRUE, final |-> final]
        ELSE [raised |-> FALSE, final |-> source_weights]

NoArtifact == [best |-> NoFile, last |-> NoFile, final |-> NoFile, report_ok |-> TRUE,
               called |-> FALSE, raised |-> FALSE, before |-> NoFile, signal |-> "none"]

InitArtifact == art = NoArtifact

----------------------------------------------------------------------------
(* get_optimal_device and the 'device' entry of _prepare_training_args     *)

\* the items of device_combo
Devices == {"auto", "cpu", "cuda", "mps"}

Cpu == [type |-> "cpu", index |-> -1]

\* f"cuda:{torch.cuda.current_device()}"
Cuda(index) == [type |-> "cuda", index |-> index]

NoProbe == [raises |-> FALSE, is_available |-> FALSE, device_count |-> 0,
            current_device |-> 0]

\* get_optimal_device: it reads the engine flag and torch.cuda only
GetOptimalDevice(engine, probe) ==
    IF ~engine
    THEN Cpu
    ELSE IF probe.raises
         THEN Cpu
         ELSE IF probe.is_available /\ probe.device_count > 0
              THEN Cuda(probe.current_device)
              ELSE Cpu

\* _prepare_training_args: 'device': optimal_device
DeviceArgument(config_device, engine, probe) == GetOptimalDevice(engine, probe)

NoDevice == [device |-> "auto", engine |-> TRUE, probe |-> NoProbe,
             called |-> FALSE, probed |-> FALSE, argument |-> Cpu]

InitDevice == dev = NoDevice

----------------------------------------------------------------------------
(* YoloExporter.export_annotations: one image, its annotations, the label  *)
(* file of that image in the output directory                              *)

\* a quotient a / b of the conversion, kept exact; the file holds it with
\* ten decimals
Quotient(a, b) == [num |-> a, den |-> b]

\* the line f.write puts out for one annotation
YoloLine(annotation, img_w, img_h) ==
    LET rect == annotation.rect
        x1 == rect.x
        y1 == rect.y
        x2 == x1 + rect.width
        y2 == y1 + rect.height
    IN  [class_id |-> annotation.class_id,
         x_center |-> Quotient(x1 + x2, 2 * img_w),
         y_center |-> Quotient(y1 + y2, 2 * img_h),
         width    |-> Quotient(Abs(x2 - x1), img_w),
         height   |-> Quotient(Abs(y2 - y1), img_h)]

\* export_annotations: `label` is the label file before the call; open(.., 'w')
\* empties or creates it, then the loop divides by the image's width and
\* height for the first annotation before anything is written
ExportAnnotations(img_w, img_h, annotations, label) ==
    IF annotations = <<>>
    THEN [raised |-> "ValueError", label |-> label, makedirs |-> FALSE]
    ELSE IF img_w = 0 \/ img_h = 0
         THEN [raised |-> "ZeroDivisionError",
               label |-> [exists |-> TRUE, lines |-> <<>>], makedirs |-> TRUE]
         ELSE [raised |-> "none",
               label |-> [exists |-> TRUE,
                          lines |-> [i \in 1..Len(annotations) |->
                                        YoloLine(annotations[i], img_w, img_h)]],
               makedirs |-> TRUE]

NoExport == [img_w |-> 1, img_h |-> 1, annotations |-> <<>>, before |-> Absent,
             label |-> Absent, called |-> FALSE, raised |-> "none", makedirs |-> FALSE]

InitExport == exp = NoExport

----------------------------------------------------------------------------
(* VehicleClassManager: self.classes (class_id -> VehicleClass), next_id,  *)
(* and the configuration file save_classes writes. Of a class the name,    *)
(* the enabled flag and the shortcut key are kept; colour, description and *)
(* emoji are set like the enabled flag.                                    *)

VehicleClass(name, shortcut_key) ==
    [name |-> name, enabled |-> TRUE, shortcut_key |-> shortcut_key]

\* str(i + 1) for i < 9
Digits == <<"1", "2", "3", "4", "5", "6", "7", "8", "9">>

NoConfig == [state |-> "missing", classes |-> <<>>, next_id |-> 0]

\* the file after save_classes
Config(classes, next_id) == [state |-> "valid", classes |-> classes, next_id |-> next_id]

\* max(self.classes.keys())
MaxKey(classes) == CHOOSE k \in DOMAIN classes : \A j \in DOMAIN classes : j <= k

\* save_classes: the file is rewritten, or the write fails and the error is
\* raised again
SaveClasses(m, writable) ==
    IF writable
    THEN [m EXCEPT !.store = Config(m.classes, m.next_id), !.raised = "none"]
    ELSE [m EXCEPT !.raised = "OSError"]

\* _load_default_classes: ids 0..3, shortcut keys '1'..'4', then save_classes
LoadDefaultClasses(m, writable) ==
    SaveClasses([m EXCEPT !.classes = [i \in 0..3 |->
                                          VehicleClass(DefaultNames[i + 1], Digits[i + 1])],
                          !.next_id = 4],
                writable)

\* load_classes: the file's classes and next_id, the defaults when it is
\* missing or unreadable; the last statement is skipped when save_classes raised
LoadClasses(m, writable) ==
    LET loaded == IF m.store.state = "valid"
                  THEN [m EXCEPT !.classes = m.store.classes,
                                 !.next_id = m.store.next_id,
                                 !.raised = "none"]
                  ELSE LoadDefaultClasses(m, writable)
    IN  IF loaded.raised = "none" /\ DOMAIN loaded.classes # {}
        THEN [loaded EXCEPT !.next_id = MaxKey(loaded.classes) + 1]
        ELSE loaded

\* add_class
AddClass(m, name, shortcut_key, writable) ==
    IF name = ""
    THEN [m EXCEPT !.raised = "ValueError"]
    ELSE IF \E id \in DOMAIN m.classes : m.classes[id].name = name
    THEN [m EXCEPT !.raised = "ValueError"]
    ELSE IF shortcut_key # "" /\ \E id \in DOMAIN m.classes :
                                     m.classes[id].shortcut_key = shortcut_key
    THEN [m EXCEPT !.raised = "ValueError"]
    ELSE LET class_id == m.next_id
         IN  SaveClasses(
                 [m EXCEPT !.classes = [id \in (DOMAIN m.classes) \cup {class_id} |->
                                           IF id = class_id
                                           THEN VehicleClass(name, shortcut_key)
                                           ELSE m.classes[id]],
                           !.next_id = m.next_id + 1],
                 writable)

UpdateFields == {"name", "enabled", "shortcut_key"}

\* update_class: `given` holds the arguments that are not None; each
\* attribute is assigned as soon as its own check has passed
UpdateClass(m, class_id, given, name, enabled, shortcut_key, writable) ==
    IF class_id \notin DOMAIN m.classes
    THEN [m EXCEPT !.raised = "ValueError"]
    ELSE IF "name" \in given /\ name = ""
    THEN [m EXCEPT !.raised = "ValueError"]
    ELSE IF "name" \in given /\ \E cid \in DOMAIN m.classes :
                                    cid # class_id /\ m.classes[cid].name = name
    THEN [m EXCEPT !.raised = "ValueError"]
    ELSE LET named == IF "name" \in given
                      THEN [m EXCEPT !.classes[class_id].name = name]
                      ELSE m
             flagged == IF "enabled" \in given
                        THEN [named EXCEPT !.classes[class_id].enabled = enabled]
                        ELSE named
         IN  IF "shortcut_key" \in given /\ shortcut_key # ""
                /\ \E cid \in DOMAIN m.classes :
                       cid # class_id /\ m.classes[cid].shortcut_key = shortcut_key
             THEN [flagged EXCEPT !.raised = "ValueError"]
             ELSE SaveClasses(
                      IF "shortcut_key" \in given
                      THEN [flagged EXCEPT !.classes[class_id].shortcut_key = shortcut_key]
                      ELSE flagged,
                      writable)

\* delete_class
DeleteClass(m, class_id, writable) ==
    IF class_id \notin DOMAIN m.classes
    THEN [m EXCEPT !.raised = "ValueError"]
    ELSE SaveClasses([m EXCEPT !.classes = [id \in (DOMAIN m.classes) \ {class_id} |->
                                               m.classes[id]]],
                     writable)

\* import_classes_txt: the class of line i (from 0) gets the id i, blank
\* lines are passed over, next_id is the number of classes; every exception
\* is caught and False returned
ImportClassesTxt(m, file, writable) ==
    IF ~file.exists
    THEN [m EXCEPT !.raised = "none", !.returned = FALSE]
    ELSE LET lines == file.lines
             ids == {i \in 0..(Len(lines) - 1) : Strip(lines[i + 1]) # ""}
             classes == [i \in ids |->
                            VehicleClass(Strip(lines[i + 1]),
                                         IF i < 9 THEN Digits[i + 1] ELSE "")]
             saved == SaveClasses([m EXCEPT !.classes = classes,
                                            !.next_id = Cardinality(ids)],
                                  writable)
         IN  [saved EXCEPT !.raised = "none", !.returned = (saved.raised = "none")]

NoOperation == [op |-> "none", class_id |-> -1, classes |-> <<>>, next_id |-> 0,
                store |-> NoConfig]

NoManager == [classes |-> <<>>, next_id |-> 0, store |-> NoConfig,
              raised |-> "none", returned |-> TRUE, ops |-> 0, last |-> NoOperation]

InitManager == mgr = NoManager

----------------------------------------------------------------------------
(* PredictionResultDialog: the prediction list, the accepted and rejected  *)
(* lists, the radio buttons of the items. A prediction is a dict object:   *)
(* `id` tells the objects of one list apart, `dict` is the content, which  *)
(* is all that `in` and list.remove compare.                               *)

\* p == q on two dicts
Equal(p, q) == p.dict = q.dict

\* prediction in list
In(prediction, list) == \E i \in DOMAIN list : Equal(list[i], prediction)

\* list.remove(prediction): the first equal element goes
Remove(list, prediction) ==
    LET first == CHOOSE i \in DOMAIN list :
                     /\ Equal(list[i], prediction)
                     /\ \A j \in 1..(i - 1) : ~Equal(list[j], prediction)
    IN  SubSeq(list, 1, first - 1) \o SubSeq(list, first + 1, Len(list))

\* on_prediction_decision(index, decision, checked) with checked = True; the
\* item `index` counts from 1 here
OnPredictionDecision(d, index, decision) ==
    LET prediction == d.predictions[index]
    IN  IF decision = "accept"
        THEN LET rejected == IF In(prediction, d.rejected)
                             THEN Remove(d.rejected, prediction)
                             ELSE d.rejected
                 accepted == IF ~In(prediction, d.accepted)
                             THEN Append(d.accepted, prediction)
                             ELSE d.accepted
             IN  [d EXCEPT !.accepted = accepted, !.rejected = rejected]
        ELSE LET accepted == IF In(prediction, d.accepted)
                             THEN Remove(d.accepted, prediction)
                             ELSE d.accepted
                 rejected == IF ~In(prediction, d.rejected)
                             THEN Append(d.rejected, prediction)
                             ELSE d.rejected
             IN  [d EXCEPT !.accepted = accepted, !.rejected = rejected]

\* button.setChecked(True) on the radio button `decision` of item `index`:
\* toggled is emitted, and the decision handled, only when the state changes
SetChecked(d, index, decision) ==
    IF d.radio[index] = decision
    THEN d
    ELSE [OnPredictionDecision(d, index, decision) EXCEPT !.radio[index] = decision]

\* the loop over the item widgets, items from..count
RECURSIVE CheckAll(_, _, _)
CheckAll(d, from, decision) ==
    IF from > Len(d.predictions)
    THEN d
    ELSE CheckAll(SetChecked(d, from, decision), from + 1, decision)

\* accept_all_predictions
AcceptAllPredictions(d) ==
    CheckAll([d EXCEPT !.accepted = d.predictions, !.rejected = <<>>], 1, "accept")

\* reject_all_predictions
RejectAllPredictions(d) ==
    CheckAll([d EXCEPT !.rejected = d.predictions, !.accepted = <<>>], 1, "reject")

\* apply_selections: the two lists the signals carry
RECURSIVE FinalLists(_, _)
FinalLists(predictions, rejected_predictions) ==
    IF predictions = <<>>
    THEN [final_accepted |-> <<>>, final_rejected |-> <<>>]
    ELSE LET rest == FinalLists(Tail(predictions), rejected_predictions)
             p == Head(predictions)
         IN  IF In(p, rejected_predictions)
             THEN [rest EXCEPT !.final_rejected = <<p>> \o rest.final_rejected]
             ELSE [rest EXCEPT !.final_accepted = <<p>> \o rest.final_accepted]

\* __init__ and load_predictions: both lists empty, every item's accept
\* button checked before its toggled signal is connected
NewPredictionDialog(dicts) ==
    [predictions |-> [i \in DOMAIN dicts |-> [id |-> i, dict |-> dicts[i]]],
     accepted |-> <<>>, rejected |-> <<>>,
     radio |-> [i \in DOMAIN dicts |-> "accept"],
     applied |-> FALSE, final_accepted |-> <<>>, final_rejected |-> <<>>]

NoPredictions == NewPredictionDialog(<<>>)

InitPredictions == pred = NoPredictions

InitLate == InitArtifact /\ InitDevice /\ InitExport /\ InitManager /\ InitPredictions

InitOrch == InitClasses /\ InitTrain /\ InitResolve /\ InitProgress /\ InitLate

----------------------------------------------------------------------------
(* The layout specification: prepare_yolo_dataset called again and again   *)
(* on one source tree and one dataset root                                 *)

InitSplit == /\ splitIn = <<>>
             /\ splitCfg = <<0, 0, 0>>
             /\ splitOut = NoSplit

InitStats == /\ statsDir = EmptyDir
             /\ statsOut = [called |-> FALSE, entry |-> NoStats]

InitFind == /\ findImage = None
            /\ findLabels = <<>>
            /\ findOut = [called |-> FALSE, result |-> None]

InitLayout == /\ dsDirs = FALSE
              /\ dsImages = EmptyLayout.images
              /\ dsLabels = EmptyLayout.labels
              /\ dsYaml = FALSE
              /\ dsStats = NoStatsFile
              /\ lastCall = NoCall
              /\ calls = 0

Init == /\ tree \in Trees
        /\ InitLayout
        /\ InitSplit
        /\ InitStats
        /\ InitFind
        /\ InitOrch

Next == Prepare

Spec == Init /\ [][Next]_vars

----------------------------------------------------------------------------
(* The split specification: _split_dataset on a list of distinct files     *)

SplitCall ==
    /\ splitOut.raised = "not called"
    /\ \E shuffled \in Shuffles(splitIn) :
           splitOut' = SplitDataset(shuffled, splitCfg[1], splitCfg[2], splitCfg[3])
    /\ UNCHANGED <<splitIn, splitCfg, prepVars, statsVars, findVars, orchVars>>

SplitInit == /\ splitIn \in {Iota(n) : n \in FileCounts}
             /\ splitCfg \in RatioTriples
             /\ splitOut = NoSplit
             /\ tree = {}
             /\ InitLayout
             /\ InitStats
             /\ InitFind
             /\ InitOrch

SplitNext == SplitCall

SpecSplit == SplitInit /\ [][SplitNext]_vars

----------------------------------------------------------------------------
(* The statistics specification: _generate_dataset_statistics on one       *)
(* labels/<split> directory                                                *)

LineSeqs == UNION {[1..n -> ClassIds \cup {Blank}] : n \in 0..MaxLines}

LabelDirs == UNION {[S -> LineSeqs] : S \in SUBSET (1..MaxLabels)}

GenerateDatasetStatistics ==
    /\ ~statsOut.called
    /\ statsOut' = [called |-> TRUE, entry |-> SplitStatistics(EmptyDir, statsDir)]
    /\ UNCHANGED <<statsDir, splitVars, prepVars, findVars, orchVars>>

StatsInit == /\ statsDir \in LabelDirs
             /\ statsOut = [called |-> FALSE, entry |-> NoStats]
             /\ tree = {}
             /\ InitLayout
             /\ InitSplit
             /\ InitFind
             /\ InitOrch

StatsNext == GenerateDatasetStatistics

SpecStats == StatsInit /\ [][StatsNext]_vars

----------------------------------------------------------------------------
(* The class-list specification: _load_vehicle_classes under every state   *)
(* of the registry and of the three classes.txt files                      *)

ClassLineValues == {[pad |-> TRUE, text |-> "van"], BlankLine}

ClassFiles == {Absent} \cup
    {[exists |-> TRUE, lines |-> l] :
        l \in UNION {[1..n -> ClassLineValues] : n \in 0..MaxClassLines}}

RegistryStores ==
    {MissingStore, CorruptStore,
     ValidStore(<<[name |-> "taxi", enabled |-> TRUE], [name |-> "tram", enabled |-> FALSE],
                  [name |-> "van", enabled |-> TRUE]>>),
     ValidStore(<<[name |-> "tram", enabled |-> FALSE]>>)}

LoadClassesCall ==
    /\ ~clsOut.called
    /\ LET r == LoadVehicleClasses(clsEnv)
       IN  clsOut' = [called |-> TRUE, raised |-> r.raised, tier |-> r.tier,
                      names |-> r.names, store |-> r.store]
    /\ UNCHANGED <<clsEnv, splitVars, prepVars, statsVars, findVars, trainVars,
                   resolveVars, prog, lateVars>>

ClassesInit == /\ clsEnv \in [importable : BOOLEAN, store : RegistryStores,
                              writable : BOOLEAN, files : [ClassesFiles -> ClassFiles]]
               /\ clsOut = NoClasses
               /\ tree = {}
               /\ InitLayout
               /\ InitSplit
               /\ InitStats
               /\ InitFind
               /\ InitTrain
               /\ InitResolve
               /\ InitProgress
               /\ InitLate

ClassesNext == LoadClassesCall

SpecClasses == ClassesInit /\ [][ClassesNext]_vars

----------------------------------------------------------------------------
(* The training specification: one ModelTrainingDialog, the user's clicks  *)
(* and answers, the worker threads, the queued signals; the values in the  *)
(* dialog's widgets stay as they are                                       *)

TrainInit == /\ ultralytics \in BOOLEAN
             /\ \E epochs \in 1..MaxTrainEpochs : dlg = NewDialog(epochs)
             /\ workers = [r \in TrainingThreads |-> NoWorker]
             /\ queue = <<>>
             /\ hist = [r \in TrainingThreads |-> NoHist]
             /\ tree = {}
             /\ InitLayout
             /\ InitSplit
             /\ InitStats
             /\ InitFind
             /\ InitClasses
             /\ InitResolve
             /\ InitProgress
             /\ InitLate

TrainNext ==
    \/ \E r \in TrainingThreads : CheckEngine(r)
    \/ \E r \in TrainingThreads : CreateRunDirectory(r)
    \/ \E r \in TrainingThreads : SaveTrainingConfig(r)
    \/ \E r \in TrainingThreads : ResolveBaseModel(r)
    \/ \E r \in TrainingThreads : LoadModel(r)
    \/ \E r \in TrainingThreads : Train(r)
    \/ \E r \in TrainingThreads : EpochEnd(r)
    \/ \E r \in TrainingThreads : TrainRaise(r)
    \/ \E r \in TrainingThreads : SaveFinalModel(r)
    \/ \E r \in TrainingThreads : EmitCompleted(r)
    \/ \E r \in TrainingThreads : EmitFailed(r)
    \/ \E r \in TrainingThreads : Return(r)
    \/ PrepareDataset
    \/ StartTraining
    \/ StartAnswer
    \/ StopTraining
    \/ StopAnswer
    \/ Deliver

SpecTrain == TrainInit /\ [][TrainNext]_vars

----------------------------------------------------------------------------
(* The run specification: the same dialog and worker, followed through its *)
(* first run only, with the user also editing epochs_spin                  *)

StartFirstTraining == Created = 0 /\ StartTraining

RunNext ==
    \/ \E r \in TrainingThreads : CheckEngine(r)
    \/ \E r \in TrainingThreads : CreateRunDirectory(r)
    \/ \E r \in TrainingThreads : SaveTrainingConfig(r)
    \/ \E r \in TrainingThreads : ResolveBaseModel(r)
    \/ \E r \in TrainingThreads : LoadModel(r)
    \/ \E r \in TrainingThreads : Train(r)
    \/ \E r \in TrainingThreads : EpochEnd(r)
    \/ \E r \in TrainingThreads : TrainRaise(r)
    \/ \E r \in TrainingThreads : SaveFinalModel(r)
    \/ \E r \in TrainingThreads : EmitCompleted(r)
    \/ \E r \in TrainingThreads : EmitFailed(r)
    \/ \E r \in TrainingThreads : Return(r)
    \/ PrepareDataset
    \/ UpdateConfig
    \/ StartFirstTraining
    \/ StartAnswer
    \/ StopTraining
    \/ StopAnswer
    \/ Deliver

SpecRun == TrainInit /\ [][RunNext]_vars

----------------------------------------------------------------------------
(* The base-model specification: train_model from _download_base_model to  *)
(* the engine's train call, for every outcome of the load attempts         *)

\* train_model, lines 377-392: resolve, open the model (opens: YOLO(model_path)
\* succeeds), reach self.model.train
ResolveCall ==
    /\ ~resOut.called
    /\ LET res == DownloadBaseModel(resEnv.base_model, resEnv.exists, resEnv.loads)
       IN  resOut' = [called |-> TRUE, raised |-> res.raised, model |-> res.model,
                      tried |-> res.tried,
                      train_invoked |-> ~res.raised /\ resEnv.opens]
    /\ UNCHANGED <<resEnv, prog, splitVars, prepVars, statsVars, findVars, classVars,
                   trainVars, lateVars>>

ResolveInit == /\ resEnv \in [base_model : BaseModels, exists : BOOLEAN,
                              loads : LoadOutcomes, opens : BOOLEAN]
               /\ resOut = NoResolve
               /\ tree = {}
               /\ InitLayout
               /\ InitSplit
               /\ InitStats
               /\ InitFind
               /\ InitClasses
               /\ InitTrain
               /\ InitProgress
               /\ InitLate

ResolveNext == ResolveCall

SpecResolve == ResolveInit /\ [][ResolveNext]_vars

----------------------------------------------------------------------------
(* The progress specification: the on_train_epoch_end callback over the    *)
(* epochs of one engine run                                                *)

MaxEpochCount == 8       \* every epoch count up to this one is followed

\* torch.cuda.device_count() is at most this
MaxDevices == 2

MaxDim == 2              \* an image is at most this wide and high

MaxAnnotations == 2      \* annotations of one image

MaxOps == 2              \* calls made on one VehicleClassManager

MaxNextId == 5           \* add_class is followed while next_id is below this

MaxImportLines == 2      \* lines of an imported classes.txt

MaxPredictions == 3      \* predictions of one image

EpochsSpinMax == 1000    \* epochs_spin.setRange(1, 1000)

LargeEpochCounts == {50, 99, 100, 101, 102, 150, EpochsSpinMax}

EpochCounts == (1..MaxEpochCount) \cup LargeEpochCounts

\* on_train_epoch_end at trainer.epoch = prog.epoch: the percentage goes to
\* progress_callback, "Epoch <epoch + 1>/<epochs>" to log_callback
OnTrainEpochEnd ==
    /\ prog.epoch < prog.epochs
    /\ prog' = [prog EXCEPT !.epoch = prog.epoch + 1,
                            !.prev = prog.last,
                            !.last = Progress(prog.epoch, prog.epochs),
                            !.log = prog.epoch + 1]
    /\ UNCHANGED <<splitVars, prepVars, statsVars, findVars, classVars, trainVars,
                   resolveVars, lateVars>>

ProgressInit == /\ \E epochs \in EpochCounts : prog = NoProgress(epochs)
                /\ tree = {}
                /\ InitLayout
                /\ InitSplit
                /\ InitStats
                /\ InitFind
                /\ InitClasses
                /\ InitTrain
                /\ InitResolve
                /\ InitLate

ProgressNext == OnTrainEpochEnd

SpecProgress == ProgressInit /\ [][ProgressNext]_vars

\* the initial values of the variables of the specifications above
InitOld == /\ tree = {}
           /\ InitLayout
           /\ InitSplit
           /\ InitStats
           /\ InitFind
           /\ InitClasses
           /\ InitTrain
           /\ InitResolve
           /\ InitProgress

----------------------------------------------------------------------------
(* The artifact specification: train_model after the engine's train call   *)
(* has returned, for every combination of checkpoints                      *)

Weights == {"w1", "w2", "w3"}

\* train_model, lines 394-405, and run(), lines 60-63: _save_final_model,
\* _generate_training_report (report_ok: the report can be written), the signal
SaveArtifactCall ==
    /\ ~art.called
    /\ LET res == FinalModel(art.best, art.last, art.final)
       IN  art' = [art EXCEPT !.called = TRUE, !.raised = res.raised,
                              !.before = art.final, !.final = res.final,
                              !.signal = IF res.raised \/ ~art.report_ok
                                         THEN "training_failed"
                                         ELSE "training_completed"]
    /\ UNCHANGED <<oldVars, dev, exp, mgr, pred>>

ArtifactInit == /\ \E best, last, final \in Weights \cup {NoFile}, report_ok \in BOOLEAN :
                       art = [NoArtifact EXCEPT !.best = best, !.last = last,
                                                !.final = final, !.report_ok = report_ok]
                /\ InitOld
                /\ InitDevice /\ InitExport /\ InitManager /\ InitPredictions

ArtifactNext == SaveArtifactCall

SpecArtifact == ArtifactInit /\ [][ArtifactNext]_vars

----------------------------------------------------------------------------
(* The device specification: _prepare_training_args on one configuration   *)
(* and one machine                                                         *)

Probes == {[NoProbe EXCEPT !.raises = TRUE]}
          \cup {[raises |-> FALSE, is_available |-> a, device_count |-> n,
                 current_device |-> c] :
                    a \in BOOLEAN, n \in 0..MaxDevices, c \in 0..(MaxDevices - 1)}

PrepareTrainingArgs ==
    /\ ~dev.called
    /\ dev' = [dev EXCEPT !.called = TRUE,
                          !.probed = dev.engine,
                          !.argument = DeviceArgument(dev.device, dev.engine, dev.probe)]
    /\ UNCHANGED <<oldVars, art, exp, mgr, pred>>

DeviceInit == /\ \E device \in Devices, engine \in BOOLEAN, probe \in Probes :
                     dev = [NoDevice EXCEPT !.device = device, !.engine = engine,
                                            !.probe = probe]
              /\ InitOld
              /\ InitArtifact /\ InitExport /\ InitManager /\ InitPredictions

DeviceNext == PrepareTrainingArgs

SpecDevice == DeviceInit /\ [][DeviceNext]_vars

----------------------------------------------------------------------------
(* The export specification: export_annotations on one image, with or      *)
(* without a label file from an earlier export                             *)

Annotations == [rect : [x : 0..1, y : 0..1, width : {1}, height : {1}],
                class_id : 0..1]

RECURSIVE AnnotationLists(_)
AnnotationLists(n) ==
    IF n = 0 THEN {<<>>}
    ELSE LET shorter == AnnotationLists(n - 1)
         IN  shorter \cup {Append(l, a) : l \in {m \in shorter : Len(m) = n - 1},
                                          a \in Annotations}

\* the label file an earlier export of the image left: one annotation of a
\* one-by-one image
EarlierLabel == [exists |-> TRUE,
                 lines |-> <<YoloLine([rect |-> [x |-> 0, y |-> 0, width |-> 1,
                                                 height |-> 1],
                                       class_id |-> 0], 1, 1)>>]

ExportCall ==
    /\ ~exp.called
    /\ LET res == ExportAnnotations(exp.img_w, exp.img_h, exp.annotations, exp.label)
       IN  exp' = [exp EXCEPT !.called = TRUE, !.raised = res.raised,
                              !.label = res.label, !.makedirs = res.makedirs]
    /\ UNCHANGED <<oldVars, art, dev, mgr, pred>>

ExportInit == /\ \E img_w, img_h \in 0..MaxDim,
                    annotations \in AnnotationLists(MaxAnnotations),
                    label \in {Absent, EarlierLabel} :
                     exp = [NoExport EXCEPT !.img_w = img_w, !.img_h = img_h,
                                            !.annotations = annotations,
                                            !.before = label, !.label = label]
              /\ InitOld
              /\ InitArtifact /\ InitDevice /\ InitManager /\ InitPredictions

ExportNext == ExportCall

SpecExport == ExportInit /\ [][ExportNext]_vars

----------------------------------------------------------------------------
(* The registry specification: one VehicleClassManager after construction  *)
(* and the calls made on it                                                *)

ClassNames == {"", "taxi", "van"}

ShortcutKeys == {"", "1", "2"}

ImportFiles == {Absent} \cup
    {[exists |-> TRUE, lines |-> l] :
        l \in UNION {[1..n -> ClassLineValues] : n \in 0..MaxImportLines}}

\* the files a manager is constructed over: none, one with two classes, one
\* whose classes were all deleted
ConfigFiles ==
    {NoConfig,
     Config([i \in 0..1 |-> IF i = 0 THEN VehicleClass("taxi", "1")
                                      ELSE VehicleClass("van", "2")], 2),
     Config(<<>>, 1)}

\* what a call finds before it changes anything
Before(op, class_id) ==
    [op |-> op, class_id |-> class_id, classes |-> mgr.classes,
     next_id |-> mgr.next_id, store |-> mgr.store]

\* the manager after a call, with what the call found
Called(m, op, class_id) ==
    [m EXCEPT !.ops = mgr.ops + 1, !.last = Before(op, class_id)]

AddClassCall ==
    /\ mgr.ops < MaxOps
    /\ mgr.next_id < MaxNextId
    /\ \E name \in ClassNames, shortcut_key \in ShortcutKeys, writable \in BOOLEAN :
           mgr' = Called(AddClass(mgr, name, shortcut_key, writable),
                         "add_class", mgr.next_id)
    /\ UNCHANGED <<oldVars, art, dev, exp, pred>>

UpdateClassCall ==
    /\ mgr.ops < MaxOps
    /\ \E class_id \in 0..MaxNextId, given \in SUBSET UpdateFields,
          name \in ClassNames, enabled \in BOOLEAN, shortcut_key \in ShortcutKeys,
          writable \in BOOLEAN :
           mgr' = Called(UpdateClass(mgr, class_id, given, name, enabled,
                                     shortcut_key, writable),
                         "update_class", class_id)
    /\ UNCHANGED <<oldVars, art, dev, exp, pred>>

DeleteClassCall ==
    /\ mgr.ops < MaxOps
    /\ \E class_id \in 0..MaxNextId, writable \in BOOLEAN :
           mgr' = Called(DeleteClass(mgr, class_id, writable), "delete_class", class_id)
    /\ UNCHANGED <<oldVars, art, dev, exp, pred>>

ImportClassesTxtCall ==
    /\ mgr.ops < MaxOps
    /\ \E file \in ImportFiles, writable \in BOOLEAN :
           mgr' = Called(ImportClassesTxt(mgr, file, writable), "import_classes_txt", -1)
    /\ UNCHANGED <<oldVars, art, dev, exp, pred>>

LoadClassesAgain ==
    /\ mgr.ops < MaxOps
    /\ \E writable \in BOOLEAN :
           mgr' = Called(LoadClasses(mgr, writable), "load_classes", -1)
    /\ UNCHANGED <<oldVars, art, dev, exp, pred>>

\* VehicleClassManager(config_file): __init__ ends with load_classes
ManagerInit == /\ \E store \in ConfigFiles :
                      LET m == LoadClasses([NoManager EXCEPT !.store = store], TRUE)
                      IN  mgr = m
               /\ InitOld
               /\ InitArtifact /\ InitDevice /\ InitExport /\ InitPredictions

ManagerNext ==
    \/ AddClassCall
    \/ UpdateClassCall
    \/ DeleteClassCall
    \/ ImportClassesTxtCall
    \/ LoadClassesAgain

SpecManager == ManagerInit /\ [][ManagerNext]_vars

----------------------------------------------------------------------------
(* The review specification: one PredictionResultDialog and the user's     *)
(* clicks until the selections are applied                                 *)

\* the contents a prediction of the list can have
Detections == {"car at 10,10", "bus at 40,20"}

PredictionLists == UNION {[1..n -> Detections] : n \in 0..MaxPredictions}

\* the user checks the reject button of an item whose accept button is checked
ClickReject ==
    /\ ~pred.applied
    /\ \E index \in DOMAIN pred.predictions :
           /\ pred.radio[index] = "accept"
           /\ pred' = SetChecked(pred, index, "reject")
    /\ UNCHANGED <<oldVars, art, dev, exp, mgr>>

\* the user checks the accept button of an item whose reject button is checked
ClickAccept ==
    /\ ~pred.applied
    /\ \E index \in DOMAIN pred.predictions :
           /\ pred.radio[index] = "reject"
           /\ pred' = SetChecked(pred, index, "accept")
    /\ UNCHANGED <<oldVars, art, dev, exp, mgr>>

AcceptAll ==
    /\ ~pred.applied
    /\ pred' = AcceptAllPredictions(pred)
    /\ UNCHANGED <<oldVars, art, dev, exp, mgr>>

RejectAll ==
    /\ ~pred.applied
    /\ pred' = RejectAllPredictions(pred)
    /\ UNCHANGED <<oldVars, art, dev, exp, mgr>>

\* apply_selections, which closes the dialog
ApplySelections ==
    /\ ~pred.applied
    /\ LET final == FinalLists(pred.predictions, pred.rejected)
       IN  pred' = [pred EXCEPT !.applied = TRUE,
                                !.final_accepted = final.final_accepted,
                                !.final_rejected = final.final_rejected]
    /\ UNCHANGED <<oldVars, art, dev, exp, mgr>>

ReviewInit == /\ \E dicts \in PredictionLists : pred = NewPredictionDialog(dicts)
              /\ InitOld
              /\ InitArtifact /\ InitDevice /\ InitExport /\ InitManager

ReviewNext ==
    \/ ClickReject
    \/ ClickAccept
    \/ AcceptAll
    \/ RejectAll
    \/ ApplySelections

SpecReview == ReviewInit /\ [][ReviewNext]_vars

----------------------------------------------------------------------------
(* The lookup specification: _find_label_file on one image and one list    *)
(* of distinct annotation files                                            *)

FindStems == {"a", "b", "c"}

FindImages == {[dir |-> "images", stem |-> st, ext |-> "jpg"] : st \in FindStems}

FindLabelPaths == {[dir |-> d, stem |-> st, ext |-> "txt"] :
                     d \in {"labels", "exports/yolo"}, st \in {"a", "b"}}

FindLabelLists ==
    UNION {Orderings(S) : S \in {T \in SUBSET FindLabelPaths : Cardinality(T) <= MaxFound}}

FindCall ==
    /\ ~findOut.called
    /\ findOut' = [called |-> TRUE, result |-> FindLabelFile(findImage, findLabels)]
    /\ UNCHANGED <<findImage, findLabels, splitVars, prepVars, statsVars, orchVars>>

FindInit == /\ findImage \in FindImages
            /\ findLabels \in FindLabelLists
            /\ findOut = [called |-> FALSE, result |-> None]
            /\ tree = {}
            /\ InitLayout
            /\ InitSplit
            /\ InitStats
            /\ InitOrch

FindNext == FindCall

SpecFind == FindInit /\ [][FindNext]_vars

----------------------------------------------------------------------------
(* Claims *)

PartsOf(out) == out.train \o out.val \o out.test

C3_ValidationBeforeMutation ==
    [][(calls' = calls + 1 /\ lastCall'.raised \in ValidationErrors)
           => UNCHANGED fsVars]_vars

(* C4: after a completed prepare_yolo_dataset call, images/<split> holds   *)
(* as many files as the splitter assigned to the split: every assigned     *)
(* image under its own file name, and nothing else.                        *)
C4_ImageCountsMatch ==
    lastCall.raised = "none" =>
        \A s \in SplitNames :
            /\ Cardinality(DOMAIN dsImages[s]) = Cardinality(lastCall.assigned[s])
            /\ DOMAIN dsImages[s] = {FileName(p) : p \in lastCall.assigned[s]}

(* C5: after preparation, labels/<split>/<stem>.txt exists iff an image    *)
(* with that stem was assigned to the split and a discovered annotation    *)
(* file has the stem; an image without one is still copied.                *)
C5_LabelIffAssignedAndMatched ==
    lastCall.raised = "none" =>
        \A s \in SplitNames :
            /\ \A st \in (DOMAIN dsLabels[s]) \cup {p.stem : p \in lastCall.assigned[s]} :
                   st \in DOMAIN dsLabels[s] <=>
                       /\ \E p \in lastCall.assigned[s] : p.stem = st
                       /\ \E l \in lastCall.labels : l.stem = st
            /\ \A p \in lastCall.assigned[s] : FileName(p) \in DOMAIN dsImages[s]

(* C6: layout writing is idempotent under re-run: after a run the dataset  *)
(* root holds the files a single run with that run's assignment would      *)
(* write, and no image or label left over from an earlier run.             *)
C6_RerunLeavesNoLeftovers ==
    lastCall.raised = "none" =>
        \A s \in SplitNames :
            /\ \A name \in DOMAIN dsImages[s] :
                   \E p \in lastCall.assigned[s] : FileName(p) = name
            /\ \A st \in DOMAIN dsLabels[s] :
                   \E p \in lastCall.assigned[s] : p.stem = st /\ lastCall.lookup[p] # None

(* C7: _collect_files deduplicates by resolved absolute path: a physical   *)
(* file reachable through two search roots appears once in the image list  *)
(* and once in the annotation-file list.                                   *)
C7_DedupByResolvedPath ==
    lastCall.raised # "not called" =>
        /\ \A p, q \in lastCall.images : Physical(p) = Physical(q) => p = q
        /\ \A p, q \in lastCall.labels : Physical(p) = Physical(q) => p = q

(* C8: _find_label_file returns the first annotation file in list order    *)
(* whose stem equals the image's stem, None when there is none, and never  *)
(* a file with another stem.                                               *)
C8_FirstMatchingStem ==
    findOut.called =>
        LET hits == {i \in 1..Len(findLabels) : findLabels[i].stem = findImage.stem}
        IN  /\ hits = {} => findOut.result = None
            /\ hits # {} =>
                   /\ findOut.result.stem = findImage.stem
                   /\ \E i \in hits : /\ findOut.result = findLabels[i]
                                      /\ \A j \in hits : i <= j

\* several annotation files share the image's stem, after one that does not
C8_Witness ==
    /\ findOut.called
    /\ Cardinality({i \in 1..Len(findLabels) : findLabels[i].stem = findImage.stem}) >= 2
    /\ findLabels[1].stem # findImage.stem
    /\ findOut.result = findLabels[2]

WellFormed(labels_dir) ==
    \A k \in DOMAIN labels_dir : \A i \in 1..Len(labels_dir[k]) : labels_dir[k][i] \in ClassIds

(* C9: for a label directory of well-formed annotation lines, the sum of   *)
(* the class_distribution counts equals the split's 'annotations' total.   *)
C9_ClassCountsSumToTotal ==
    (statsOut.called /\ WellFormed(statsDir)) =>
        SumValues(statsOut.entry.class_distribution,
                  DOMAIN statsOut.entry.class_distribution) = statsOut.entry.annotations

\* two files, both classes, a class twice in one file
C9_Witness ==
    /\ statsOut.called
    /\ WellFormed(statsDir)
    /\ statsOut.entry.labels = 2
    /\ DOMAIN statsOut.entry.class_distribution = ClassIds
    /\ \E k \in DOMAIN statsDir : Len(statsDir[k]) = 2 /\ statsDir[k][1] = statsDir[k][2]

(* C10: a line with no tokens is skipped and not counted: it adds neither  *)
(* to 'annotations' nor to class_distribution, so 'annotations' is the     *)
(* number of lines that carry a class id.                                  *)
C10_BlankLinesNotCounted ==
    statsOut.called =>
        /\ statsOut.entry.annotations =
               SumValues([k \in DOMAIN statsDir |->
                              Cardinality({i \in 1..Len(statsDir[k]) : statsDir[k][i] \in ClassIds})],
                         DOMAIN statsDir)
        /\ SumValues(statsOut.entry.class_distribution,
                     DOMAIN statsOut.entry.class_distribution) = statsOut.entry.annotations

----------------------------------------------------------------------------
\* C11: _load_vehicle_classes never raises because of the registry.  When the
\* registry can be read (the manager imports and constructs) it returns the
\* registry's enabled names in id order; when the registry access fails
\* (import fails, or the store is missing or unparsable and cannot be
\* rewritten) it returns the non-blank stripped lines of the first existing
\* file among classes.txt, exports/yolo/classes.txt, <source_dir>/classes.txt,
\* and the fixed four-name list when none of them exists.
RegistryFails(env) ==
    \/ ~env.importable
    \/ env.store.state # "valid" /\ ~env.writable

NonBlankTexts(lines) ==
    LET kept == SelectSeq(lines, LAMBDA l : l.text # "")
    IN  [i \in 1..Len(kept) |-> kept[i].text]

EnabledNames(classes) ==
    LET kept == SelectSeq(classes, LAMBDA c : c.enabled)
    IN  [i \in 1..Len(kept) |-> kept[i].name]

C11_ThreeTierFallback ==
    clsOut.called =>
        /\ ~clsOut.raised
        /\ ~RegistryFails(clsEnv) =>
               clsOut.names = EnabledNames(IF clsEnv.store.state = "valid"
                                           THEN clsEnv.store.classes
                                           ELSE RegistryDefaults)
        /\ RegistryFails(clsEnv) =>
               \/ \E i \in ClassesFiles :
                      /\ clsEnv.files[i].exists
                      /\ \A j \in 1..(i - 1) : ~clsEnv.files[j].exists
                      /\ clsOut.names = NonBlankTexts(clsEnv.files[i].lines)
               \/ /\ \A i \in ClassesFiles : ~clsEnv.files[i].exists
                  /\ clsOut.names = <<"jiche", "qiche", "kache", "gongche">>

\* the registry fails, classes.txt is absent, and the two later files exist
\* with different contents: the call returned the lines of exports/yolo/classes.txt
C11_Witness ==
    /\ clsOut.called
    /\ RegistryFails(clsEnv)
    /\ ~clsEnv.files[1].exists
    /\ clsEnv.files[2].exists
    /\ clsEnv.files[3].exists
    /\ NonBlankTexts(clsEnv.files[2].lines) # NonBlankTexts(clsEnv.files[3].lines)
    /\ Len(clsEnv.files[2].lines) > Len(clsOut.names)
    /\ clsOut.names = <<"van">>

----------------------------------------------------------------------------
----------------------------------------------------------------------------
\* C13: a run becomes cancelled only from running: never while it is still
\* preparing (the engine's train call not yet entered), and never after its
\* completion or failure has been reported.
C13_CancelledOnlyFromRunning ==
    \A r \in TrainingThreads :
        hist[r].cancelled =>
            /\ hist[r].cancelled_at \notin PreparingSteps
            /\ hist[r].cancelled_after = "none"

----------------------------------------------------------------------------
\* C14: _download_base_model returns the configured identifier when it is an
\* existing local path or when it loads; otherwise the first of yolov8n.pt,
\* yolov8s.pt, yolov8m.pt, in that order, that loads; it raises only when
\* none of them loads, and then the engine's train call is never reached.
C14_FirstSuccessFallback ==
    resOut.called =>
        LET configured == resEnv.exists \/ resEnv.loads[1]
            fallbacks  == <<"yolov8n.pt", "yolov8s.pt", "yolov8m.pt">>
        IN  /\ configured => ~resOut.raised /\ resOut.model = resEnv.base_model
            /\ ~configured =>
                   \/ \E i \in 1..3 :
                          /\ resEnv.loads[i + 1]
                          /\ \A j \in 1..(i - 1) : ~resEnv.loads[j + 1]
                          /\ ~resOut.raised
                          /\ resOut.model = fallbacks[i]
                   \/ /\ \A i \in 1..3 : ~resEnv.loads[i + 1]
                      /\ resOut.raised
            /\ resOut.raised => ~resOut.train_invoked

\* the configured model neither exists nor loads, yolov8n.pt fails, the two
\* later fallbacks would load: yolov8s.pt was returned and training reached
C14_Witness ==
    /\ resOut.called
    /\ ~resEnv.exists /\ ~resEnv.loads[1] /\ ~resEnv.loads[2]
    /\ resEnv.loads[3] /\ resEnv.loads[4]
    /\ resEnv.base_model = "yolov8x.pt"
    /\ resOut.model = "yolov8s.pt"
    /\ resOut.train_invoked

----------------------------------------------------------------------------
\* C15: when no base model can be resolved, train_model aborts before a run
\* is created: no run directory and no training_config.json exist for it.
C15_NoRunOnResolutionFailure ==
    \A r \in TrainingThreads :
        workers[r].raised_in = "download_base_model" =>
            ~workers[r].run_dir /\ ~workers[r].config_saved

----------------------------------------------------------------------------
\* C16 (as stated): the progress reported at epoch index e of N is the integer
\* percentage of (e + 1) / N * 100, so that a 3-epoch run reports 33, 67, 100.
C16_ThreeEpochsRounded ==
    prog.epochs = 3 /\ prog.epoch > 0 => prog.last = <<33, 67, 100>>[prog.epoch]

\* C16 (amended): the progress reported at epoch index e of N is
\* (e + 1) / N * 100 truncated to an integer: the floor of (e + 1) * 100 / N
\* whenever N is no multiple of 50, never more than one below it otherwise,
\* and 100 at the last epoch; a 3-epoch run reports 33, 66, 100.
C16_TruncatedPercentage ==
    prog.epoch > 0 =>
        LET floor == (prog.epoch * 100) \div prog.epochs
        IN  /\ prog.last \in {floor - 1, floor}
            /\ prog.epochs % 50 # 0 => prog.last = floor
            /\ prog.epoch = prog.epochs => prog.last = 100
            /\ prog.epochs = 3 => prog.last = <<33, 66, 100>>[prog.epoch]

\* the second epoch of a 3-epoch run has ended and 66 was reported
C16_Witness ==
    /\ prog.epochs = 3
    /\ prog.epoch = 2
    /\ prog.prev = 33
    /\ prog.last = 66

----------------------------------------------------------------------------
\* C17 (as stated): the callbacks fire in epoch order and the percentages are
\* strictly increasing, for every epoch count from 1 to 1000.
C17_StrictlyIncreasing ==
    /\ prog.log = prog.epoch
    /\ prog.epoch >= 2 => prog.prev < prog.last

\* C17 (amended): the callbacks fire in epoch order and the percentages never
\* decrease, for every epoch count from 1 to 1000; they are strictly
\* increasing for epoch counts below 100.
C17_NonDecreasing ==
    /\ prog.log = prog.epoch
    /\ prog.epoch >= 2 =>
           /\ prog.prev <= prog.last
           /\ prog.epochs < 100 => prog.prev < prog.last

\* a 1000-epoch run has reported the same percentage for two epochs in a row,
\* after several epochs
C17_Witness ==
    /\ prog.epochs = EpochsSpinMax
    /\ prog.epoch > 10
    /\ prog.prev = prog.last

----------------------------------------------------------------------------
\* C18: for every run that is not cancelled exactly one terminal callback
\* runs, completion or failure and never a second one; it runs after the
\* worker thread has exited, and no per-epoch callback of the run runs after it.
C18_OneTerminalAfterWorkerExit ==
    \A r \in TrainingThreads :
        ~hist[r].cancelled =>
            /\ hist[r].terminals <= 1
            /\ workers[r].pc = "exited" /\ queue = <<>> => hist[r].terminals = 1
            /\ hist[r].terminals = 1 => ~hist[r].alive_at_terminal
            /\ ~hist[r].epoch_after_terminal

----------------------------------------------------------------------------
\* C19: for a run cancelled while in flight (stop_training confirmed) the
\* completion callback on_training_completed is never delivered, whatever
\* the interleaving of the worker's emissions and the handling of the stop.
C19_NoCompletionForCancelledRun ==
    \A r \in TrainingThreads :
        hist[r].cancelled => hist[r].reported # "training_completed"

----------------------------------------------------------------------------
\* C20: at most one run is active per dialog: no TrainingThread is started
\* while a previously started one has not exited.
C20_AtMostOneActiveRun ==
    Cardinality({r \in TrainingThreads : IsRunning(workers[r])}) <= 1

----------------------------------------------------------------------------
\* C21: the configuration of a run is a snapshot taken at run start: edits
\* made in the dialog while the run is in progress change no value the run
\* reads, and the configuration recorded in training_report.json equals the
\* one written to training_config.json.
C21_ConfigSnapshot ==
    \A r \in TrainingThreads :
        /\ workers[r].train_invoked => workers[r].epochs = workers[r].snapshot
        /\ workers[r].report # 0 => workers[r].report = workers[r].snapshot

----------------------------------------------------------------------------
----------------------------------------------------------------------------
\* C23: the device passed to the engine follows the configured preference:
\* with 'auto' it is the probe's result (an accelerated device when the probe
\* reports one, 'cpu' otherwise, 'cpu' when the probe raises); with an
\* explicit device it is that device, whatever the probe would report.
C23_DeviceFollowsPreference ==
    dev.called =>
        /\ dev.device = "auto" =>
               dev.argument = GetOptimalDevice(dev.engine, dev.probe)
        /\ dev.device # "auto" => dev.argument.type = dev.device

----------------------------------------------------------------------------
\* C24: a failed preparation leaves no dataset registered as valid: when the
\* most recent prepare_yolo_dataset call into the root aborted, the root
\* holds neither dataset.yaml nor dataset_statistics.json, also when an
\* earlier call into the same root had succeeded.
C24_NoDatasetAfterAbort ==
    lastCall.raised \notin {"none", "not called"} =>
        /\ ~dsYaml
        /\ ~dsStats.written

----------------------------------------------------------------------------
\* C25: _load_vehicle_classes never creates or modifies vehicle_classes.json:
\* whatever the store was before the call (missing, corrupt, valid), it is
\* the same after the call.
C25_StoreUntouched ==
    clsOut.called => clsOut.store = clsEnv.store

----------------------------------------------------------------------------
\* C26: after any number of prepare_yolo_dataset runs into the same root no
\* image file name is present in more than one of images/train, images/val
\* and images/test.
C26_SplitsDisjoint ==
    \A s, t \in SplitNames :
        s # t => (DOMAIN dsImages[s]) \cap (DOMAIN dsImages[t]) = {}

----------------------------------------------------------------------------
\* C27: export_annotations fails fast on an image of width or height zero:
\* it raises the division-by-zero error, writes no annotation line, and a
\* label file an earlier export left for the image is as it was.
C27_FailFastKeepsLabel ==
    (exp.called /\ exp.annotations # <<>> /\ (exp.img_w = 0 \/ exp.img_h = 0))
        => /\ exp.raised = "ZeroDivisionError"
           /\ exp.before.exists => exp.label = exp.before
           /\ ~exp.before.exists => exp.label.lines = <<>>

----------------------------------------------------------------------------
\* C28: after any sequence of add_class, update_class, delete_class,
\* import_classes_txt and load_classes, next_id is greater than every
\* existing class id, so a successful add_class allocates an id that was
\* not in use and leaves every class that existed as it was.
C28_NextIdAboveIds ==
    /\ \A id \in DOMAIN mgr.classes : id < mgr.next_id
    /\ (mgr.last.op = "add_class" /\ mgr.raised = "none") =>
           /\ mgr.last.class_id \notin DOMAIN mgr.last.classes
           /\ \A id \in DOMAIN mgr.last.classes :
                  id \in DOMAIN mgr.classes /\ mgr.classes[id] = mgr.last.classes[id]

----------------------------------------------------------------------------
\* C29: update_class is all-or-nothing: when it raises ValueError (unknown
\* id, empty name, duplicate name, duplicate shortcut key) no attribute of
\* any class in memory has changed and the configuration file has not been
\* rewritten.
C29_UpdateAllOrNothing ==
    (mgr.last.op = "update_class" /\ mgr.raised = "ValueError") =>
        /\ mgr.classes = mgr.last.classes
        /\ mgr.store = mgr.last.store

----------------------------------------------------------------------------
\* C30: in PredictionResultDialog, after any sequence of accept and reject
\* decisions on single predictions, accept-all and reject-all, the accepted
\* and the rejected list have no element in common and hold only elements
\* of the prediction list; apply_selections reports every prediction once,
\* as rejected when it is in the rejected list and as accepted otherwise.
C30_DecisionListsPartition ==
    /\ \A i \in DOMAIN pred.accepted, j \in DOMAIN pred.rejected :
           pred.accepted[i] # pred.rejected[j]
    /\ \A i \in DOMAIN pred.accepted :
           \E k \in DOMAIN pred.predictions : pred.predictions[k] = pred.accepted[i]
    /\ \A i \in DOMAIN pred.rejected :
           \E k \in DOMAIN pred.predictions : pred.predictions[k] = pred.rejected[i]
    /\ pred.applied =>
           /\ Len(pred.final_accepted) + Len(pred.final_rejected) = Len(pred.predictions)
           /\ \A k \in DOMAIN pred.predictions :
                  IF In(pred.predictions[k], pred.rejected)
                  THEN \E i \in DOMAIN pred.final_rejected :
                           pred.final_rejected[i] = pred.predictions[k]
                  ELSE \E i \in DOMAIN pred.final_accepted :
                           pred.final_accepted[i] = pred.predictions[k]

====
